---- MODULE Spec2Model ----
(***************************************************************************)
(* A model of the Crypt4GH streaming writer (streaming/out.go) and of the  *)
(* key codec and shared-key deriver (keys/keys.go).                        *)
(*                                                                         *)
(* Three specifications share the module:                                  *)
(*   Spec        the Crypt4GHWriter: construction, Write, WriteByte, Close *)
(*   SpecKeys    WriteCrypt4GHX25519PrivateKey / ReadPrivateKey            *)
(*   SpecShared  GenerateReaderSharedKey / GenerateWriterSharedKey         *)
(* Each leaves the variables of the other two at their initial values.     *)
(*                                                                         *)
(* Bytes are naturals in 0..255 and byte strings are sequences of them.    *)
(* The primitives of golang.org/x/crypto (ChaCha20-Poly1305, X25519,       *)
(* BLAKE2b) are replaced by small stand-ins that keep the algebra the code *)
(* relies on: Open inverts Seal under the same key and nonce and rejects   *)
(* any other key, X25519(a, pub(b)) = X25519(b, pub(a)), and the hash is   *)
(* injective on its input.                                                 *)
(***************************************************************************)
EXTENDS Integers, Sequences, FiniteSets, TLC

VARIABLES
    \* ---- streaming.Crypt4GHWriter ----
    wstate,     \* "none" before NewCrypt4GHWriter, "open" once it returned a
                \* writer, "failed" when it returned (nil, err)
    args,       \* history: the arguments NewCrypt4GHWriter was called with
    dataKey,    \* dataEncryptionParametersHeaderPacket.DataKey
    header,     \* crypt4GHWriter.header
    buffer,     \* crypt4GHWriter.buffer: the bytes buffered, oldest first
    sink,       \* every call made to the io.Writer, in order
    offered,    \* history: number of bytes callers have handed to the writer
    accepted,   \* history: every byte buffer.WriteByte took, in order
    flushMark,  \* history: Len(accepted) when flushBuffer last ran
    flushLog,   \* history: per flushBuffer run, what it was given and did
    anyFail,    \* history: some flushBuffer run returned an error
    nClose,     \* history: number of Close calls
    ret,        \* what the last call returned to its caller
    \* ---- keys.ReadPrivateKey / WriteCrypt4GHX25519PrivateKey ----
    kstate,     \* "start", "written" / "crafted" (a key file exists), "failed"
                \* (the write returned an error), "read"
    kfile,      \* the key file: its kind, PEM type, body bytes, origin
    kpass,      \* the passPhrase handed to ReadPrivateKey
    kres,       \* what ReadPrivateKey returned (or that it panicked)
    \* ---- keys.Generate{Reader,Writer}SharedKey ----
    sstate,     \* "start", "drawn"
    sin,        \* the key material drawn
    sres        \* the results of the derivations

wvars == <<wstate, args, dataKey, header, buffer, sink, offered, accepted, flushMark,
           flushLog, anyFail, nClose, ret>>
kvars == <<kstate, kfile, kpass, kres>>
svars == <<sstate, sin, sres>>
vars == <<wvars, kvars, svars>>

----------------------------------------------------------------------------
(* Sizes.                                                                  *)

\* headers.UnencryptedDataSegmentSize is 65 536; the model scales it down.
UnencryptedDataSegmentSize == 3
\* chacha20poly1305.NonceSize, box.Overhead (the Poly1305 tag) and
\* chacha20poly1305.KeySize.
NonceSize == 12
Overhead == 16
KeySize == 32

\* Longest slice handed to one Write call.
MaxWriteLen == 4
\* Most bytes the writer accepts in one behaviour.
MaxBytes == 7
\* Most calls the writer makes to the sink in one behaviour (header included).
MaxSinkCalls == 4
\* Most flushBuffer runs that return an error in one behaviour.
MaxFailures == 1
\* Most Close calls in one behaviour.
MaxCloses == 1

\* The plaintext the caller streams through the writer: its k-th byte. The
\* bytes are pairwise distinct over the model's range, so a byte lost,
\* repeated or out of place shows; the writer never inspects a byte.
StreamByte(k) == (37 * k + 11) % 256

----------------------------------------------------------------------------
(* Byte-string helpers.                                                    *)

RECURSIVE SumTo(_, _)
SumTo(s, n) == IF n = 0 THEN 0 ELSE s[n] + SumTo(s, n - 1)
Sum(s) == SumTo(s, Len(s))

RECURSIVE WSumTo(_, _)
WSumTo(s, n) == IF n = 0 THEN 0 ELSE n * s[n] + WSumTo(s, n - 1)
\* position-weighted sum
WSum(s) == WSumTo(s, Len(s))

RECURSIVE Concat(_)
Concat(ss) == IF ss = <<>> THEN <<>> ELSE ss[1] \o Concat(Tail(ss))

Rep(b, n) == [i \in 1..n |-> b]

Take(s, n) == SubSeq(s, 1, IF n < Len(s) THEN n ELSE Len(s))
Drop(s, n) == SubSeq(s, n + 1, Len(s))

\* Go's copy(dst[:], src) into a zeroed array of n bytes.
CopyInto(n, src) == [i \in 1..n |-> IF i <= Len(src) THEN src[i] ELSE 0]

\* binary.LittleEndian / binary.BigEndian encodings.
U32LE(n) == <<n % 256, (n \div 256) % 256, (n \div 65536) % 256,
              (n \div 16777216) % 256>>
FromU32LE(b) == b[1] + 256 * b[2] + 65536 * b[3] + 16777216 * b[4]
U16BE(n) == <<(n \div 256) % 256, n % 256>>
FromU16BE(b) == 256 * b[1] + b[2]
FromU32BE(b) == 16777216 * b[1] + 65536 * b[2] + 256 * b[3] + b[4]

----------------------------------------------------------------------------
(* ChaCha20-Poly1305 stand-in (golang.org/x/crypto/chacha20poly1305).      *)

\* The key stream's seed for a key and nonce.
KeyStream(key, nonce) == (WSum(key) + Sum(nonce)) % 256

AeadTag(key, nonce, ct) ==
    LET t == WSum(key) + 3 * Sum(nonce) + Sum(ct)
    IN  [j \in 1..Overhead |-> (t + j * (Len(ct) + 1)) % 256]

\* aead.Seal(nil, nonce, plaintext, nil): ciphertext followed by the tag.
AeadSeal(key, nonce, pt) ==
    LET ks == KeyStream(key, nonce)
        ct == [i \in 1..Len(pt) |-> (pt[i] + ks + i) % 256]
    IN  ct \o AeadTag(key, nonce, ct)

\* aead.Open(nil, nonce, box, nil): the plaintext, or an authentication error.
AeadOpen(key, nonce, box) ==
    IF Len(box) < Overhead
    THEN [ok |-> FALSE, pt |-> <<>>]
    ELSE LET ct  == Take(box, Len(box) - Overhead)
             tag == Drop(box, Len(box) - Overhead)
             ks  == KeyStream(key, nonce)
         IN  IF tag # AeadTag(key, nonce, ct)
             THEN [ok |-> FALSE, pt |-> <<>>]
             ELSE [ok |-> TRUE,
                   pt |-> [i \in 1..Len(ct) |-> (ct[i] + 512 - ks - i) % 256]]

----------------------------------------------------------------------------
(* X25519 and BLAKE2b stand-ins (golang.org/x/crypto/curve25519, blake2b). *)
(* Scalars act by exponentiation in the multiplicative group modulo a      *)
(* small prime; a point is carried in the first byte of its 32-byte array. *)

Group == [prime |-> 251, base |-> 6]

RECURSIVE ModExp(_, _)
ModExp(b, e) ==
    IF e = 0 THEN 1
    ELSE LET h == ModExp(b, e \div 2)
         IN  IF e % 2 = 0 THEN (h * h) % Group.prime
             ELSE (((h * h) % Group.prime) * b) % Group.prime

Scalar(priv) == 1 + (WSum(priv) % (Group.prime - 2))

\* curve25519.ScalarBaseMult
ScalarBaseMult(priv) == CopyInto(KeySize, <<ModExp(Group.base, Scalar(priv))>>)

\* curve25519.X25519: errors on the all-zero output (a low-order point).
X25519(priv, pub) ==
    LET out == CopyInto(KeySize, <<ModExp(pub[1], Scalar(priv))>>)
    IN  IF out = Rep(0, KeySize) THEN [err |-> "InvalidPoint", key |-> <<>>]
        ELSE [err |-> "nil", key |-> out]

\* blake2b.Sum512(combination)[:KeySize]: a symbolic digest, injective on its
\* input (collision resistance).
Blake2b(input) == <<"blake2b", input>>

----------------------------------------------------------------------------
(* keys.go: derivations.                                                   *)

DerivePublicKey(privateKey) == ScalarBaseMult(privateKey)

generateSharedKey(diffieHellmanKey, readerPublicKey, writerPublicKey) ==
    LET combination == (diffieHellmanKey \o readerPublicKey) \o writerPublicKey
    IN  [err |-> "nil", key |-> Blake2b(combination)]

GenerateReaderSharedKey(privateKey, publicKey) ==
    LET derivedPublicKey == DerivePublicKey(privateKey)
        dh == X25519(privateKey, publicKey)
    IN  IF dh.err # "nil" THEN [err |-> dh.err, key |-> <<>>]
        ELSE generateSharedKey(dh.key, derivedPublicKey, publicKey)

\* Variant: the writer hashes the public keys in the reader's order.
GenerateWriterSharedKey_ReaderOrder(privateKey, publicKey) ==
    LET derivedPublicKey == DerivePublicKey(privateKey)
        dh == X25519(privateKey, publicKey)
    IN  IF dh.err # "nil" THEN [err |-> dh.err, key |-> <<>>]
        ELSE generateSharedKey(dh.key, derivedPublicKey, publicKey)

GenerateWriterSharedKey(privateKey, publicKey) ==
    LET derivedPublicKey == DerivePublicKey(privateKey)
        dh == X25519(privateKey, publicKey)
    IN  IF dh.err # "nil" THEN [err |-> dh.err, key |-> <<>>]
        ELSE generateSharedKey(dh.key, publicKey, derivedPublicKey)

----------------------------------------------------------------------------
(* keys.go: names, as the bytes they are on the wire.                      *)

\* "c4gh-v1"
magic == <<99, 52, 103, 104, 45, 118, 49>>
\* "none"
none == <<110, 111, 110, 101>>
\* "chacha20_poly1305"
supportedCipherName ==
    <<99, 104, 97, 99, 104, 97, 50, 48, 95, 112, 111, 108, 121, 49, 51, 48, 53>>
\* "scrypt", "bcrypt_pbkdf", "pbkdf2_hmac_sha256"
scrypt == <<115, 99, 114, 121, 112, 116>>
bcryptPbkdf == <<98, 99, 114, 121, 112, 116, 95, 112, 98, 107, 100, 102>>
pbkdf2 == <<112, 98, 107, 100, 102, 50, 95, 104, 109, 97, 99, 95, 115, 104,
            97, 50, 53, 54>>
\* Names outside the registry and the cipher list: "argon2", "aes".
argon2 == <<97, 114, 103, 111, 110, 50>>
aes == <<97, 101, 115>>

\* PEM block types.
openSSHPrivateKeyHeader == "OPENSSH PRIVATE KEY"
openSSLPrivateKeyHeader == "PRIVATE KEY"
crypt4GHPrivateKeyHeader == "CRYPT4GH ENCRYPTED PRIVATE KEY"

\* Object identifiers, DER-encoded: 1.3.101.112, 1.3.101.110 and
\* rsaEncryption 1.2.840.113549.1.1.1.
ed25519Algorithm == <<43, 101, 112>>
x25519Algorithm == <<43, 101, 110>>
rsaAlgorithm == <<42, 134, 72, 134, 247, 13, 1, 1, 1>>

\* kdf.KDFS: the registry of section 4.A; "none" is its reserved sentinel.
KDFS == {scrypt, bcryptPbkdf, pbkdf2, none}

\* kdf.KDFS[name].Derive(rounds, password, salt): a 32-byte key. scrypt
\* ignores rounds.
Derive(name, rounds, password, salt) ==
    LET r == IF name = scrypt THEN 0 ELSE rounds
        t == Len(name) + r + 7 * WSum(password) + 13 * Len(password) + Sum(salt)
    IN  [j \in 1..KeySize |-> (t + j) % 256]

\* extra25519.PrivateKeyToCurve25519: hash the seed (the first KeySize bytes
\* of the Ed25519 private key), clamp.
PrivateKeyToCurve25519(edKey) ==
    LET h == [j \in 1..KeySize |-> (5 * edKey[j] + j) % 256]
    IN  [j \in 1..KeySize |->
            IF j = 1 THEN h[1] - (h[1] % 8)
            ELSE IF j = KeySize THEN (h[j] % 64) + 64
            ELSE h[j]]

----------------------------------------------------------------------------
(* encoding/pem, encoding/asn1, encoding/binary, x/crypto/ssh as the key   *)
(* codec uses them.                                                        *)

\* A passPhrase argument: nil, or a byte slice (possibly empty).
NilPass == [isNil |-> TRUE, bytes |-> <<>>]
Pass(b) == [isNil |-> FALSE, bytes |-> b]

\* cap(block.Bytes) after pem.Decode of a block whose base64 text has no
\* extra line breaks: base64.DecodedLen of the text.
PemCap(n) == 3 * ((n + 2) \div 3)

\* pem.Encode(writer, &pem.Block{Type, Bytes}): the file.
PemEncode(type, bytes) ==
    [kind |-> "pem", type |-> type, bytes |-> bytes, cap |-> PemCap(Len(bytes)),
     ssh |-> [keyType |-> "none", encrypted |-> FALSE, pass |-> <<>>,
              edKey |-> <<>>, viaPkcs8 |-> FALSE]]

\* pem.Decode(allBytes): the block, or nil when the input is not PEM.
PemDecode(file) ==
    IF file.kind = "pem" THEN [isNil |-> FALSE, Bytes |-> file.bytes, cap |-> file.cap]
    ELSE [isNil |-> TRUE, Bytes |-> <<>>, cap |-> 0]

\* asn1.Unmarshal(block.Bytes, &openSSLPrivateKey) for
\* SEQUENCE { INTEGER version, SEQUENCE { OID, params }, OCTET STRING }
\* with short-form lengths; anything else is an error.
Asn1Unmarshal(b) ==
    LET bad == [ok |-> FALSE, oid |-> <<>>, payload |-> <<>>]
    IN  IF Len(b) < 9 \/ b[1] # 48 \/ b[2] >= 128 \/ b[2] > Len(b) - 2 THEN bad
        ELSE IF b[3] # 2 \/ b[4] # 1 \/ b[6] # 48 THEN bad
        ELSE LET algLen == b[7]
                 oidLen == b[9]
                 next   == 8 + algLen
             IN  IF b[8] # 6 \/ oidLen + 2 > algLen \/ next + 1 > Len(b) THEN bad
                 ELSE IF b[next] # 4 \/ b[next + 1] # Len(b) - next - 1 THEN bad
                 ELSE [ok |-> TRUE, oid |-> SubSeq(b, 10, 9 + oidLen),
                       payload |-> Drop(b, next + 1)]

\* The DER of a PKCS#8 private key: asn1.Marshal of openSSLPrivateKey with
\* the key wrapped in an inner OCTET STRING.
Pkcs8Der(oid, key) ==
    LET alg   == <<6, Len(oid)>> \o oid
        inner == <<4, Len(key)>> \o key
        rest  == ((<<2, 1, 0>> \o <<48, Len(alg)>>) \o alg)
                 \o (<<4, Len(inner)>> \o inner)
    IN  <<48, Len(rest)>> \o rest

\* binary.Read(&buf, binary.BigEndian, &length) for a uint16.
ReadU16(buf) ==
    IF Len(buf) = 0 THEN [err |-> "EOF", val |-> 0, rest |-> buf]
    ELSE IF Len(buf) < 2 THEN [err |-> "UnexpectedEOF", val |-> 0, rest |-> <<>>]
    ELSE [err |-> "nil", val |-> FromU16BE(buf), rest |-> Drop(buf, 2)]

\* binary.Read for a uint32.
ReadU32(buf) ==
    IF Len(buf) = 0 THEN [err |-> "EOF", val |-> 0, rest |-> buf]
    ELSE IF Len(buf) < 4 THEN [err |-> "UnexpectedEOF", val |-> 0, rest |-> <<>>]
    ELSE [err |-> "nil", val |-> FromU32BE(buf), rest |-> Drop(buf, 4)]

\* binary.Read into a byte slice of length n (io.ReadFull).
ReadN(buf, n) ==
    IF n = 0 THEN [err |-> "nil", val |-> <<>>, rest |-> buf]
    ELSE IF Len(buf) = 0 THEN [err |-> "EOF", val |-> <<>>, rest |-> buf]
    ELSE IF Len(buf) < n THEN [err |-> "UnexpectedEOF", val |-> <<>>, rest |-> <<>>]
    ELSE [err |-> "nil", val |-> Take(buf, n), rest |-> Drop(buf, n)]

\* ssh.ParseRawPrivateKey / ssh.ParseRawPrivateKeyWithPassphrase: the key
\* and its dynamic type, or an error. A PKCS#8 block is parsed only by the
\* library versions that know the "PRIVATE KEY" type (file.ssh.viaPkcs8).
SshParse(file, passPhrase) ==
    LET bad == [err |-> "ssh", keyType |-> "none", edKey |-> <<>>]
        key == [err |-> "nil", keyType |-> file.ssh.keyType, edKey |-> file.ssh.edKey]
    IN  IF file.kind # "pem" THEN bad
        ELSE IF file.type = openSSHPrivateKeyHeader
        THEN IF file.ssh.keyType = "none" THEN bad
             ELSE IF ~file.ssh.encrypted
             THEN IF passPhrase.isNil THEN key ELSE bad
             ELSE IF passPhrase.isNil THEN bad
                  ELSE IF passPhrase.bytes = file.ssh.pass THEN key ELSE bad
        ELSE IF file.type = openSSLPrivateKeyHeader
        THEN IF file.ssh.viaPkcs8 /\ passPhrase.isNil /\ file.ssh.keyType # "none"
             THEN key ELSE bad
        ELSE bad

----------------------------------------------------------------------------
(* keys.go: reading and writing private keys.                              *)

\* What ReadPrivateKey hands back: a key, an error value, or a run-time
\* panic (nil dereference, failed type assertion, slice out of range).
KeyOk(key, via) == [panic |-> FALSE, err |-> "nil", key |-> key, via |-> via]
KeyErr(err) == [panic |-> FALSE, err |-> err, key |-> Rep(0, KeySize), via |-> "none"]
KeyPanic == [panic |-> TRUE, err |-> "nil", key |-> <<>>, via |-> "none"]

\* Variant: with KDF none the cipher name is not checked.
decodePayload_NoCipherCheck(kdfName, rounds, salt, ciphername, payload, passPhrase) ==
    IF kdfName = none
    THEN KeyOk(CopyInto(KeySize, payload), "c4gh")
    ELSE IF ciphername # supportedCipherName THEN KeyErr("UnsupportedCipher")
    ELSE IF Len(payload) < NonceSize THEN KeyPanic
    ELSE LET derivedKey == Derive(kdfName, rounds, passPhrase.bytes, salt)
             opened == AeadOpen(derivedKey, Take(payload, NonceSize),
                                Drop(payload, NonceSize))
         IN  IF ~opened.ok THEN KeyErr("Decrypt")
             ELSE KeyOk(CopyInto(KeySize, opened.pt), "c4gh")

\* readCrypt4GHPrivateKey from the KDF/cipher rule on: every field is read.
decodePayload(kdfName, rounds, salt, ciphername, payload, passPhrase) ==
    IF kdfName = none
    THEN IF ciphername # none THEN KeyErr("MismatchedKdfCipher")
         ELSE KeyOk(CopyInto(KeySize, payload), "c4gh")
    ELSE IF ciphername # supportedCipherName THEN KeyErr("UnsupportedCipher")
    ELSE IF Len(payload) < NonceSize THEN KeyPanic
    ELSE LET derivedKey == Derive(kdfName, rounds, passPhrase.bytes, salt)
             opened == AeadOpen(derivedKey, Take(payload, NonceSize),
                                Drop(payload, NonceSize))
         IN  IF ~opened.ok THEN KeyErr("Decrypt")
             ELSE KeyOk(CopyInto(KeySize, opened.pt), "c4gh")

\* readCrypt4GHPrivateKey from the cipher name on.
readCipherAndPayload(kdfName, rounds, salt, buf, passPhrase) ==
    LET l1 == ReadU16(buf)
        cn == ReadN(l1.rest, l1.val)
        l2 == ReadU16(cn.rest)
        pl == ReadN(l2.rest, l2.val)
    IN  IF l1.err # "nil" THEN KeyErr(l1.err)
        ELSE IF cn.err # "nil" THEN KeyErr(cn.err)
        ELSE IF l2.err # "nil" THEN KeyErr(l2.err)
        ELSE IF pl.err # "nil" THEN KeyErr(pl.err)
        ELSE decodePayload(kdfName, rounds, salt, cn.val, pl.val, passPhrase)

\* readCrypt4GHPrivateKey: the KDF name, the registry lookup, then rounds
\* and salt when the KDF is not "none".
readCrypt4GHPrivateKey(pemBytes, passPhrase) ==
    LET buf == Drop(pemBytes, Len(magic))
        l0  == ReadU16(buf)
        kn  == ReadN(l0.rest, l0.val)
    IN  IF l0.err # "nil" THEN KeyErr(l0.err)
        ELSE IF kn.err # "nil" THEN KeyErr(kn.err)
        ELSE IF kn.val \notin KDFS THEN KeyErr("UnsupportedKDF")
        ELSE IF kn.val # none
        THEN IF passPhrase.isNil THEN KeyErr("PasswordRequired")
             ELSE LET l1 == ReadU16(kn.rest)
                      rd == ReadU32(l1.rest)
                      \* make([]byte, length-4) on a uint16
                      sl == ReadN(rd.rest, (l1.val + 65532) % 65536)
                  IN  IF l1.err # "nil" THEN KeyErr(l1.err)
                      ELSE IF rd.err # "nil" THEN KeyErr(rd.err)
                      ELSE IF sl.err # "nil" THEN KeyErr(sl.err)
                      ELSE readCipherAndPayload(kn.val, rd.val, sl.val,
                                                sl.rest, passPhrase)
        ELSE readCipherAndPayload(kn.val, 0, <<>>, kn.rest, passPhrase)

\* The trailing KeySize bytes of a PEM body.
LastKeyBytes(b) == SubSeq(b, Len(b) - KeySize + 1, Len(b))

\* ReadPrivateKey: OpenSSH, then OpenSSL (PKCS#8), then Crypt4GH.
ReadPrivateKey(file, passPhrase) ==
    LET parsed == SshParse(file, passPhrase)
        block  == PemDecode(file)
        der    == Asn1Unmarshal(block.Bytes)
    IN  IF parsed.err = "nil"
        THEN IF parsed.keyType \in {"ed25519ptr", "ed25519val"}
             THEN KeyOk(PrivateKeyToCurve25519(CopyInto(2 * KeySize, parsed.edKey)),
                        "ssh")
             ELSE KeyPanic                     \* key.(ed25519.PrivateKey)
        ELSE IF block.isNil THEN KeyPanic      \* block.Bytes on a nil block
        ELSE IF der.ok /\ der.oid = ed25519Algorithm
        THEN IF Len(block.Bytes) < KeySize THEN KeyPanic
             ELSE KeyOk(PrivateKeyToCurve25519(
                            CopyInto(2 * KeySize, LastKeyBytes(block.Bytes))),
                        "pkcs8")
        ELSE IF der.ok /\ der.oid = x25519Algorithm
        THEN IF Len(block.Bytes) < KeySize THEN KeyPanic
             ELSE KeyOk(CopyInto(KeySize, LastKeyBytes(block.Bytes)), "pkcs8")
        ELSE IF block.cap < Len(magic) THEN KeyPanic   \* block.Bytes[:7]
        ELSE IF CopyInto(Len(magic), block.Bytes) = magic
        THEN readCrypt4GHPrivateKey(block.Bytes, passPhrase)
        ELSE KeyErr("UnsupportedPrivateKeyFormat")

\* The rounds-and-salt field WriteCrypt4GHX25519PrivateKey writes: four
\* zero bytes of rounds, then the salt.
RoundsWithSalt(salt) == Rep(0, 4) \o salt

\* Variant: the field holds the salt alone.
WriteCrypt4GHX25519PrivateKey_SaltOnly(privateKey, password, salt, nonce) ==
    LET derivedKey == Derive(scrypt, 0, password.bytes, salt)
        nonceWithKey == nonce \o AeadSeal(derivedKey, nonce, privateKey)
    IN  PemEncode(crypt4GHPrivateKeyHeader,
            Concat(<<magic,
                     U16BE(Len(scrypt)), scrypt,
                     U16BE(Len(salt)), salt,
                     U16BE(Len(supportedCipherName)), supportedCipherName,
                     U16BE(Len(nonceWithKey)), nonceWithKey>>))

\* WriteCrypt4GHX25519PrivateKey with the salt and nonce rand.Reader gave.
WriteCrypt4GHX25519PrivateKey(privateKey, password, salt, nonce) ==
    LET derivedKey == Derive(scrypt, 0, password.bytes, salt)
        encryptedPrivateKey == AeadSeal(derivedKey, nonce, privateKey)
        roundsWithSalt == RoundsWithSalt(salt)
        nonceWithKey == nonce \o encryptedPrivateKey
    IN  PemEncode(crypt4GHPrivateKeyHeader,
            Concat(<<magic,
                     U16BE(Len(scrypt)), scrypt,
                     U16BE(Len(roundsWithSalt)), roundsWithSalt,
                     U16BE(Len(supportedCipherName)), supportedCipherName,
                     U16BE(Len(nonceWithKey)), nonceWithKey>>))

----------------------------------------------------------------------------
(* model/headers and model/body: the marshalling the writer calls.         *)

MagicNumber == "crypt4gh"
Version1 == 1
\* headers.PacketType values
DataEncryptionParameters == 0
DataEditList == 1

\* The sealed body of a header packet: opened only by the same shared key.
SealPacket(sharedKey, nonce, body) ==
    [sealedWith |-> sharedKey, nonce |-> nonce, body |-> body]

\* The decrypted body of a header packet (spec section 6).
PacketBody(packet) ==
    IF packet.type = DataEncryptionParameters
    THEN (U32LE(DataEncryptionParameters) \o U32LE(packet.method)) \o packet.dataKey
    ELSE (U32LE(DataEditList) \o U32LE(Len(packet.lengths)))
         \o Concat([i \in 1..Len(packet.lengths) |->
                       U32LE(packet.lengths[i]) \o U32LE(0)])

\* headers.HeaderPacket.MarshalBinary: length, method, the writer's public
\* key, a nonce, the body sealed under the writer-side shared key.
MarshalHeaderPacket(hp, nonce) ==
    LET shared == GenerateWriterSharedKey(hp.WriterPrivateKey, hp.ReaderPublicKey)
        body   == PacketBody(hp.EncryptedHeaderPacket)
    IN  [length    |-> U32LE(4 + 4 + KeySize + NonceSize + Len(body) + Overhead),
         method    |-> U32LE(hp.HeaderEncryptionMethod),
         writerPub |-> DerivePublicKey(hp.WriterPrivateKey),
         nonce     |-> nonce,
         sealed    |-> SealPacket(shared.key, nonce, body)]

\* headers.Header.MarshalBinary: magic, version, packet count, the packets
\* in the order of HeaderPackets.
MarshalHeader(h, nonce) ==
    [magic   |-> h.MagicNumber,
     version |-> U32LE(h.Version),
     count   |-> U32LE(h.HeaderPacketCount),
     packets |-> [i \in 1..Len(h.HeaderPackets) |->
                     MarshalHeaderPacket(h.HeaderPackets[i], nonce)]]

\* body.Segment.MarshalBinary: nonce || ciphertext || tag under the data key.
MarshalSegment(key, nonce, unencryptedData) ==
    nonce \o AeadSeal(key, nonce, unencryptedData)

\* The inverse, as a reader holding the data key applies it.
OpenSegment(key, wire) ==
    IF Len(wire) < NonceSize THEN [ok |-> FALSE, pt |-> <<>>]
    ELSE AeadOpen(key, Take(wire, NonceSize), Drop(wire, NonceSize))

----------------------------------------------------------------------------
(* streaming/out.go: the Crypt4GHWriter.                                   *)

\* What a fallible step of a call does: succeed, fail while marshalling
\* (rand.Read or the cipher), or fail in the sink's Write.
Outcomes == {"ok", "marshalErr", "sinkErr"}

\* The nonces rand.Read may produce.
Nonces == {Rep(1, NonceSize), Rep(2, NonceSize)}
\* The data keys rand.Read may produce.
DataKeys == {Rep(5, KeySize), [i \in 1..KeySize |-> i]}
\* The caller's keys and edit lists; "nil" is the nil pointer.
WriterPrivateKeys == {CopyInto(KeySize, <<1>>)}
ReaderPublicKeys == {DerivePublicKey(CopyInto(KeySize, <<2>>))}
EditLists == {[isNil |-> TRUE, type |-> DataEditList, lengths |-> <<>>],
              [isNil |-> FALSE, type |-> DataEditList, lengths |-> <<2, 3>>]}

\* buffer.Cap() after buffer.Grow(headers.UnencryptedDataSegmentSize) on an
\* empty bytes.Buffer.
BufferCap == UnencryptedDataSegmentSize

\* Variant: the packet count is taken before the edit-list packet is added.
BuildHeader_StaleCount(sharedKey, writerPrivateKey, readerPublicKey, dataEditListHeaderPacket) ==
    LET dep == [type |-> DataEncryptionParameters, method |-> 0,
                dataKey |-> sharedKey]
        first == <<[WriterPrivateKey |-> writerPrivateKey,
                    ReaderPublicKey |-> readerPublicKey,
                    HeaderEncryptionMethod |-> 0,
                    EncryptedHeaderPacket |-> dep]>>
        headerPackets ==
            IF ~dataEditListHeaderPacket.isNil
            THEN Append(first, [WriterPrivateKey |-> writerPrivateKey,
                                ReaderPublicKey |-> readerPublicKey,
                                HeaderEncryptionMethod |-> 0,
                                EncryptedHeaderPacket |-> dataEditListHeaderPacket])
            ELSE first
    IN  [MagicNumber |-> MagicNumber,
         Version |-> Version1,
         HeaderPacketCount |-> Len(first),
         HeaderPackets |-> headerPackets]

\* NewCrypt4GHWriter up to the header value: the packets and the count.
BuildHeader(sharedKey, writerPrivateKey, readerPublicKey, dataEditListHeaderPacket) ==
    LET dep == [type |-> DataEncryptionParameters, method |-> 0,
                dataKey |-> sharedKey]
        first == <<[WriterPrivateKey |-> writerPrivateKey,
                    ReaderPublicKey |-> readerPublicKey,
                    HeaderEncryptionMethod |-> 0,
                    EncryptedHeaderPacket |-> dep]>>
        headerPackets ==
            IF ~dataEditListHeaderPacket.isNil
            THEN Append(first, [WriterPrivateKey |-> writerPrivateKey,
                                ReaderPublicKey |-> readerPublicKey,
                                HeaderEncryptionMethod |-> 0,
                                EncryptedHeaderPacket |-> dataEditListHeaderPacket])
            ELSE first
    IN  [MagicNumber |-> MagicNumber,
         Version |-> Version1,
         HeaderPacketCount |-> Len(headerPackets),   \* uint32 of at most 2
         HeaderPackets |-> headerPackets]

\* The writer as the methods see it: its buffer, the sink behind it, and
\* the history the properties read.
Writer ==
    [buffer |-> buffer, sink |-> sink, accepted |-> accepted,
     flushMark |-> flushMark, flushLog |-> flushLog]

\* Variant: the error of the sink's Write is dropped.
flushBuffer_SwallowSinkErr(c, o) ==
    LET unencryptedData == c.buffer
        reset == [c EXCEPT !.buffer = <<>>, !.flushMark = Len(c.accepted)]
        entry == [data |-> unencryptedData, mark |-> Len(c.accepted),
                  outcome |-> o.outcome, at |-> 0]
    IN  IF o.outcome = "marshalErr"
        THEN [c |-> [reset EXCEPT !.flushLog = Append(@, entry)],
              err |-> "marshalErr"]
        ELSE [c |-> [reset EXCEPT
                       !.sink = Append(@, [kind |-> "segment",
                                           bytes |-> MarshalSegment(dataKey, o.nonce, unencryptedData),
                                           ok |-> o.outcome = "ok"]),
                       !.flushLog = Append(@, [entry EXCEPT !.at = Len(c.sink) + 1])],
              err |-> "nil"]

\* Variant: the buffer is reset only once the segment is on the sink, so a
\* failed flush keeps its bytes.
flushBuffer_ResetOnSuccess(c, o) ==
    LET unencryptedData == c.buffer
        marked == [c EXCEPT !.flushMark = Len(c.accepted)]
        entry == [data |-> unencryptedData, mark |-> Len(c.accepted),
                  outcome |-> o.outcome, at |-> 0]
    IN  IF o.outcome = "marshalErr"
        THEN [c |-> [marked EXCEPT !.flushLog = Append(@, entry)],
              err |-> "marshalErr"]
        ELSE LET wrote == [marked EXCEPT
                             !.sink = Append(@, [kind |-> "segment",
                                                 bytes |-> MarshalSegment(dataKey, o.nonce, unencryptedData),
                                                 ok |-> o.outcome = "ok"]),
                             !.flushLog = Append(@, [entry EXCEPT
                                                 !.at = Len(c.sink) + 1])]
             IN  IF o.outcome = "sinkErr"
                 THEN [c |-> wrote, err |-> "sinkErr"]
                 ELSE [c |-> [wrote EXCEPT !.buffer = <<>>], err |-> "nil"]

\* Variant: buffer.Reset() is missing.
flushBuffer_NoReset(c, o) ==
    LET unencryptedData == c.buffer
        marked == [c EXCEPT !.flushMark = Len(c.accepted)]
        entry == [data |-> unencryptedData, mark |-> Len(c.accepted),
                  outcome |-> o.outcome, at |-> 0]
    IN  IF o.outcome = "marshalErr"
        THEN [c |-> [marked EXCEPT !.flushLog = Append(@, entry)],
              err |-> "marshalErr"]
        ELSE [c |-> [marked EXCEPT
                       !.sink = Append(@, [kind |-> "segment",
                                           bytes |-> MarshalSegment(dataKey, o.nonce, unencryptedData),
                                           ok |-> o.outcome = "ok"]),
                       !.flushLog = Append(@, [entry EXCEPT !.at = Len(c.sink) + 1])],
              err |-> IF o.outcome = "sinkErr" THEN "sinkErr" ELSE "nil"]

\* flushBuffer: take the buffered bytes, reset the buffer, marshal the
\* segment, hand it to the sink. o = [outcome, nonce].
flushBuffer(c, o) ==
    LET unencryptedData == c.buffer
        reset == [c EXCEPT !.buffer = <<>>, !.flushMark = Len(c.accepted)]
        entry == [data |-> unencryptedData, mark |-> Len(c.accepted),
                  outcome |-> o.outcome, at |-> 0]
    IN  IF o.outcome = "marshalErr"
        THEN [c |-> [reset EXCEPT !.flushLog = Append(@, entry)],
              err |-> "marshalErr"]
        ELSE LET marshalledSegment == MarshalSegment(dataKey, o.nonce, unencryptedData)
                 wrote == [reset EXCEPT
                             !.sink = Append(@, [kind |-> "segment",
                                                 bytes |-> marshalledSegment,
                                                 ok |-> o.outcome = "ok"]),
                             !.flushLog = Append(@, [entry EXCEPT
                                                 !.at = Len(c.sink) + 1])]
             IN  [c |-> wrote,
                  err |-> IF o.outcome = "sinkErr" THEN "sinkErr" ELSE "nil"]

\* Variant: the byte is buffered first and the buffer flushed as soon as it
\* is full.
WriteByteOp_EagerFlush(c, b, o) ==
    LET put == [c EXCEPT !.buffer = Append(@, b), !.accepted = Append(@, b)]
    IN  IF Len(put.buffer) = BufferCap
        THEN LET f == flushBuffer(put, o)
             IN  [c |-> f.c, err |-> f.err, flushed |-> TRUE]
        ELSE [c |-> put, err |-> "nil", flushed |-> FALSE]

\* WriteByte: flush when the buffer is at capacity, then buffer the byte.
\* flushed tells the caller whether the outcome o was consumed.
WriteByteOp(c, b, o) ==
    IF Len(c.buffer) = BufferCap
    THEN LET f == flushBuffer(c, o)
         IN  IF f.err # "nil"
             THEN [c |-> f.c, err |-> f.err, flushed |-> TRUE]
             ELSE [c |-> [f.c EXCEPT !.buffer = Append(@, b),
                                     !.accepted = Append(@, b)],
                   err |-> "nil", flushed |-> TRUE]
    ELSE [c |-> [c EXCEPT !.buffer = Append(@, b), !.accepted = Append(@, b)],
          err |-> "nil", flushed |-> FALSE]

\* The outcome of the k-th flushBuffer run of one call under plan
\* [failAt, kind, nonces]: run failAt fails with kind, the others succeed.
PlanOutcome(plan, k) ==
    [outcome |-> IF k = plan.failAt THEN plan.kind ELSE "ok",
     nonce   |-> plan.nonces[1 + (k % Len(plan.nonces))]]

RECURSIVE WriteFrom(_, _, _, _, _)
\* Write's loop from index written (0-based) with k flushes done so far.
WriteFrom(c, p, written, k, plan) ==
    IF ~(written < Len(p))
    THEN [c |-> c, n |-> written, err |-> "nil"]
    ELSE LET r == WriteByteOp(c, p[written + 1], PlanOutcome(plan, k + 1))
         IN  IF r.err # "nil"
             THEN [c |-> r.c, n |-> written, err |-> r.err]
             ELSE WriteFrom(r.c, p, written + 1,
                            IF r.flushed THEN k + 1 ELSE k, plan)

WriteOp(c, p, plan) == WriteFrom(c, p, 0, 0, plan)

CloseOp(c, o) == flushBuffer(c, o)

\* NewCrypt4GHWriter: draw the data key, build and marshal the header, write
\* it to the sink; a writer is returned only if every step succeeded.
NewOp(sharedKey, writerPrivateKey, readerPublicKey, dataEditListHeaderPacket, nonce, outcome) ==
    LET h == BuildHeader(sharedKey, writerPrivateKey, readerPublicKey,
                         dataEditListHeaderPacket)
        binaryHeader == MarshalHeader(h, nonce)
    IN  IF outcome \in {"randErr", "marshalErr"}
        THEN [writer |-> FALSE, err |-> outcome, sink |-> <<>>,
              header |-> h, dataKey |-> sharedKey]
        ELSE [writer |-> outcome = "ok",
              err |-> IF outcome = "ok" THEN "nil" ELSE outcome,
              sink |-> <<[kind |-> "header", hdr |-> binaryHeader,
                          ok |-> outcome = "ok"]>>,
              header |-> h, dataKey |-> sharedKey]

\* The next n bytes of the caller's stream.
NextBytes(n) == [i \in 1..n |-> StreamByte(offered + i)]

Failures(log) == Cardinality({i \in 1..Len(log) : log[i].outcome # "ok"})

WithinBounds(c) ==
    /\ Len(c.sink) <= MaxSinkCalls
    /\ Failures(c.flushLog) <= MaxFailures

\* The plans of one call: which flushBuffer run fails, how, and the nonces.
Plans ==
    {[failAt |-> 0, kind |-> "ok",
      nonces |-> <<Rep(1, NonceSize), Rep(2, NonceSize)>>]}
    \cup [failAt : 1..2, kind : {"marshalErr", "sinkErr"},
          nonces : {<<Rep(1, NonceSize), Rep(2, NonceSize)>>}]

Install(c) ==
    /\ buffer' = c.buffer
    /\ sink' = c.sink
    /\ accepted' = c.accepted
    /\ flushMark' = c.flushMark
    /\ flushLog' = c.flushLog

WInit ==
    /\ wstate = "none"
    /\ args = <<>>
    /\ dataKey = <<>>
    /\ header = <<>>
    /\ buffer = <<>>
    /\ sink = <<>>
    /\ offered = 0
    /\ accepted = <<>>
    /\ flushMark = 0
    /\ flushLog = <<>>
    /\ anyFail = FALSE
    /\ nClose = 0
    /\ ret = [op |-> "none", len |-> 0, n |-> 0, err |-> "nil", flushes |-> 0]

KInit ==
    /\ kstate = "start"
    /\ kfile = <<>>
    /\ kpass = <<>>
    /\ kres = <<>>

SInit ==
    /\ sstate = "start"
    /\ sin = <<>>
    /\ sres = <<>>

Init == WInit /\ KInit /\ SInit

NewCrypt4GHWriter ==
    /\ wstate = "none"
    /\ \E dk \in DataKeys, wp \in WriterPrivateKeys, rp \in ReaderPublicKeys,
          el \in EditLists, nonce \in {Rep(1, NonceSize)},
          outcome \in {"ok", "randErr", "marshalErr", "sinkErr"} :
         LET r == NewOp(dk, wp, rp, el, nonce, outcome)
         IN  /\ wstate' = IF r.writer THEN "open" ELSE "failed"
             /\ args' = [writerPrivateKey |-> wp, readerPublicKey |-> rp,
                         dataEditListHeaderPacket |-> el]
             /\ dataKey' = r.dataKey
             /\ header' = r.header
             /\ sink' = r.sink
             /\ ret' = [op |-> "New", len |-> 0, n |-> 0, err |-> r.err, flushes |-> 0]
    /\ UNCHANGED <<buffer, offered, accepted, flushMark, flushLog, anyFail,
                   nClose, kvars, svars>>

Write ==
    /\ wstate = "open"
    /\ \E len \in 0..MaxWriteLen, plan \in Plans :
         LET r == WriteOp(Writer, NextBytes(len), plan)
         IN  /\ offered + len <= MaxBytes
             /\ offered' = offered + len
             /\ WithinBounds(r.c)
             /\ Install(r.c)
             /\ anyFail' = (anyFail \/ r.err # "nil")
             /\ ret' = [op |-> "Write", len |-> len, n |-> r.n, err |-> r.err,
                        flushes |-> Len(r.c.flushLog) - Len(flushLog)]
    /\ UNCHANGED <<wstate, args, dataKey, header, nClose, kvars, svars>>

WriteByte ==
    /\ wstate = "open"
    /\ \E plan \in Plans :
         LET r == WriteByteOp(Writer, StreamByte(offered + 1), PlanOutcome(plan, 1))
         IN  /\ offered + 1 <= MaxBytes
             /\ offered' = offered + 1
             /\ WithinBounds(r.c)
             /\ Install(r.c)
             /\ anyFail' = (anyFail \/ r.err # "nil")
             /\ ret' = [op |-> "WriteByte", len |-> 1, n |-> 0, err |-> r.err,
                        flushes |-> Len(r.c.flushLog) - Len(flushLog)]
    /\ UNCHANGED <<wstate, args, dataKey, header, nClose, kvars, svars>>

Close ==
    /\ wstate = "open"
    /\ nClose < MaxCloses
    /\ \E plan \in Plans :
         LET r == CloseOp(Writer, PlanOutcome(plan, 1))
         IN  /\ WithinBounds(r.c)
             /\ Install(r.c)
             /\ anyFail' = (anyFail \/ r.err # "nil")
             /\ ret' = [op |-> "Close", len |-> 0, n |-> 0, err |-> r.err,
                        flushes |-> Len(r.c.flushLog) - Len(flushLog)]
    /\ nClose' = nClose + 1
    /\ UNCHANGED <<wstate, args, dataKey, header, offered, kvars, svars>>

Next == NewCrypt4GHWriter \/ Write \/ WriteByte \/ Close

Spec == Init /\ [][Next]_vars

----------------------------------------------------------------------------
(* Properties of the writer (specification Spec).                          *)

S == UnencryptedDataSegmentSize

IsWriterOp(op) == op \in {"Write", "WriteByte", "Close"}

\* The indices of the sink calls that carry a segment.
SegmentCalls == {i \in 1..Len(sink) : sink[i].kind = "segment"}
Segments == SelectSeq(sink, LAMBDA e : e.kind = "segment")

\* Plaintext bytes a segment on the wire carries.
PlainLen(e) == Len(e.bytes) - NonceSize - Overhead
\* The plaintext a reader holding the data key recovers from it.
Plain(e) == OpenSegment(dataKey, e.bytes).pt

SegmentLens == [i \in 1..Len(Segments) |-> PlainLen(Segments[i])]
SegmentPlains == Concat([i \in 1..Len(Segments) |-> Plain(Segments[i])])

\* The first n bytes of the caller's stream.
Stream(n) == [i \in 1..n |-> StreamByte(i)]

\* A run of writes with no failure, ended by its one Close.
ClosedOnce == wstate = "open" /\ ~anyFail /\ nClose = 1 /\ ret.op = "Close"

\* C1: n >= 1 bytes accepted over any split into Write/WriteByte calls, the
\* sink never failing, then one Close: exactly ceil(n / S) segments are on
\* the sink, all of S plaintext bytes except the last, which carries the
\* remaining 1..S bytes.
C1_SegmentSizes ==
    (ClosedOnce /\ Len(accepted) >= 1) =>
        LET n == Len(accepted)
            k == (n + S - 1) \div S
        IN  /\ Len(Segments) = k
            /\ \A i \in 1..(k - 1) : SegmentLens[i] = S
            /\ SegmentLens[k] = n - S * (k - 1)
            /\ SegmentLens[k] \in 1..S

\* n = S + 1 gives two segments, of S bytes and of 1.
C1_Witness ==
    ClosedOnce /\ Len(accepted) = S + 1 /\ SegmentLens = <<S, 1>>

\* C2: no segment on the sink carries zero plaintext bytes, and a writer
\* closed with nothing written leaves the header alone on the sink.
C2_NoEmptySegment ==
    /\ \A i \in SegmentCalls : PlainLen(sink[i]) >= 1
    /\ (wstate = "open" /\ offered = 0 /\ nClose >= 1) => Len(sink) = 1

\* C3: with no failure so far, the plaintexts of the segments emitted, in
\* order, followed by the buffer, are exactly the bytes handed to the
\* writer so far, in order; after Close the segments alone are.
C3_StreamOrder ==
    (wstate = "open" /\ ~anyFail) =>
        /\ accepted = Stream(offered)
        /\ SegmentPlains \o buffer = accepted
        /\ ret.op = "Close" => SegmentPlains = accepted

\* Two full segments and a short one, closed.
C3_Witness ==
    /\ ClosedOnce
    /\ offered = 2 * S + 1
    /\ Len(Segments) = 3
    /\ SegmentPlains = Stream(2 * S + 1)

\* The type discriminator of a decrypted packet body.
BodyType(body) == FromU32LE(Take(body, 4))

\* C8: the header is written once, by NewCrypt4GHWriter, before any
\* segment; its count field is the number of packets it carries: the
\* recipient's DataEncryptionParameters packet, then the DataEditList
\* packet for the same recipient when an edit list was supplied. Write,
\* WriteByte and Close put only segments on the sink.
C8_HeaderOnce ==
    /\ wstate = "none" => sink = <<>>
    /\ \A i \in 1..Len(sink) : (sink[i].kind = "header") <=> (i = 1)
    /\ wstate = "open" => (Len(sink) >= 1 /\ sink[1].ok)
    /\ Len(sink) >= 1 =>
        LET h == sink[1].hdr
            rkey == GenerateWriterSharedKey(args.writerPrivateKey,
                                            args.readerPublicKey).key
            el == args.dataEditListHeaderPacket
        IN  /\ h.magic = "crypt4gh"
            /\ FromU32LE(h.count) = Len(h.packets)
            /\ Len(h.packets) = IF el.isNil THEN 1 ELSE 2
            /\ \A i \in 1..Len(h.packets) : h.packets[i].sealed.sealedWith = rkey
            /\ BodyType(h.packets[1].sealed.body) = 0
            /\ Drop(h.packets[1].sealed.body, 8) = dataKey
            /\ ~el.isNil =>
                 h.packets[2].sealed.body =
                     (U32LE(1) \o U32LE(Len(el.lengths)))
                     \o Concat([i \in 1..Len(el.lengths) |->
                                   U32LE(el.lengths[i]) \o U32LE(0)])

\* A writer built with an edit list that has since emitted a segment.
C8_Witness ==
    /\ wstate = "open"
    /\ ~args.dataEditListHeaderPacket.isNil
    /\ Len(sink) >= 2
    /\ FromU32LE(sink[1].hdr.count) = 2

\* The flushBuffer runs of the last call.
LastFlushes == SubSeq(flushLog, Len(flushLog) - ret.flushes + 1, Len(flushLog))

\* C9: every call to the sink after the header hands over one complete
\* sealed segment, nonce || ciphertext || tag of all the bytes buffered
\* when flushBuffer ran, and a call whose flushBuffer failed returns that
\* first failure at once.
C9_WholeSegments ==
    /\ \A i \in 1..Len(flushLog) :
         LET f == flushLog[i]
             from == IF i = 1 THEN 0 ELSE flushLog[i - 1].mark
         IN  /\ f.data = SubSeq(accepted, from + 1, f.mark)
             /\ (f.outcome = "marshalErr") <=> (f.at = 0)
             /\ f.at # 0 =>
                  /\ f.at \in SegmentCalls
                  /\ sink[f.at].ok = (f.outcome = "ok")
                  /\ Len(sink[f.at].bytes) = NonceSize + Len(f.data) + Overhead
                  /\ OpenSegment(dataKey, sink[f.at].bytes) =
                         [ok |-> TRUE, pt |-> f.data]
    /\ \A i \in SegmentCalls : \E j \in 1..Len(flushLog) : flushLog[j].at = i
    /\ \A i, j \in 1..Len(flushLog) :
         (i # j /\ flushLog[i].at # 0) => flushLog[i].at # flushLog[j].at
    /\ IsWriterOp(ret.op) =>
         /\ \A i \in 1..(Len(LastFlushes) - 1) : LastFlushes[i].outcome = "ok"
         /\ ret.err = IF LastFlushes = <<>> THEN "nil"
                      ELSE IF LastFlushes[Len(LastFlushes)].outcome = "ok"
                           THEN "nil"
                           ELSE LastFlushes[Len(LastFlushes)].outcome

\* A Write that got the sink's error back after a successful flush.
C9_Witness ==
    /\ ret.op = "Write"
    /\ ret.err = "sinkErr"
    /\ ret.flushes = 2
    /\ ~sink[Len(sink)].ok

\* C10: the buffer never exceeds S bytes and holds exactly the bytes
\* accepted since flushBuffer last ran, whatever that run's outcome; it is
\* empty after Close and after any failed call; a Write whose flush fails
\* returns the index of the byte that triggered it, having accepted the
\* bytes before it and not that one.
C10_BufferAfterFlush ==
    /\ Len(buffer) <= S
    /\ buffer = SubSeq(accepted, flushMark + 1, Len(accepted))
    /\ (ret.op = "Close" \/ (IsWriterOp(ret.op) /\ ret.err # "nil")) =>
         buffer = <<>>
    /\ ret.op = "Write" =>
         /\ ret.n <= ret.len
         /\ ret.n <= Len(accepted)
         /\ SubSeq(accepted, Len(accepted) - ret.n + 1, Len(accepted))
              = [i \in 1..ret.n |-> StreamByte(offered - ret.len + i)]
         /\ (ret.err = "nil") <=> (ret.n = ret.len)
         /\ ret.err # "nil" =>
              /\ Len(flushLog[Len(flushLog)].data) = S
              /\ \A i \in 1..Len(accepted) :
                   accepted[i] # StreamByte(offered - ret.len + ret.n + 1)

\* A Close that follows a Write whose flush failed: it emits a segment of
\* the bytes written after the failure only.
C10_Witness ==
    /\ ret.op = "Close"
    /\ ret.err = "nil"
    /\ Len(flushLog) >= 2
    /\ flushLog[Len(flushLog) - 1].outcome # "ok"
    /\ Len(flushLog[Len(flushLog) - 1].data) = S
    /\ Len(flushLog[Len(flushLog)].data) >= 1
    /\ Plain(sink[Len(sink)]) = flushLog[Len(flushLog)].data

----------------------------------------------------------------------------
(* Specification SpecKeys: a key file is written by                        *)
(* WriteCrypt4GHX25519PrivateKey or handed in from outside, then read by   *)
(* ReadPrivateKey.                                                         *)

\* Private keys, passwords, salts and nonces drawn.
PrivateKeys == {Rep(9, KeySize), [i \in 1..KeySize |-> 3 * i]}
Passwords == {<<>>, <<112>>, <<113, 113>>}
PassPhrases == {NilPass} \cup {Pass(b) : b \in Passwords}
Salts == {Rep(4, 16), [i \in 1..16 |-> i]}
KeyNonces == {Rep(3, NonceSize)}

\* Length-prefixed field of the Crypt4GH private-key body.
Field(b) == U16BE(Len(b)) \o b

\* A Crypt4GH private-key body: magic, KDF name, the rounds-and-salt field
\* when hasRS, cipher name, payload.
C4ghBody(kdfName, hasRS, rs, ciphername, payload) ==
    Concat(<<magic, Field(kdfName), IF hasRS THEN Field(rs) ELSE <<>>,
             Field(ciphername), Field(payload)>>)

NoSsh == [keyType |-> "none", encrypted |-> FALSE, pass |-> <<>>,
          edKey |-> <<>>, viaPkcs8 |-> FALSE]

Origin(how, class, key, pass, kdf, cipher, hasRS) ==
    [how |-> how, class |-> class, key |-> key, pass |-> pass, kdf |-> kdf,
     cipher |-> cipher, hasRS |-> hasRS]

\* Crypt4GH key files from outside: every pairing of KDF and cipher name,
\* with and without the rounds-and-salt field. The payload is the raw key
\* for KDF none and the key sealed under the password <<112>> otherwise.
CraftedC4gh ==
    {[file |-> PemEncode(crypt4GHPrivateKeyHeader,
                  C4ghBody(k, h,
                           IF k = none THEN <<>> ELSE RoundsWithSalt(Rep(4, 16)),
                           c,
                           IF k = none THEN key
                           ELSE Rep(3, NonceSize)
                                \o AeadSeal(Derive(k, 0, <<112>>, Rep(4, 16)),
                                            Rep(3, NonceSize), key))),
      origin |-> Origin("crafted", "c4gh", key, Pass(<<112>>), k, c, h)] :
        k \in {none, scrypt, bcryptPbkdf, argon2},
        c \in {none, supportedCipherName, aes},
        h \in BOOLEAN,
        key \in {Rep(9, KeySize)}}

\* An Ed25519 private key: seed followed by public key.
EdKey == [i \in 1..(2 * KeySize) |-> (7 * i) % 256]

\* Inputs to which no format applies, and keys of the other two formats.
CraftedOther ==
    LET o(class) == Origin("crafted", class, <<>>, NilPass, <<>>, <<>>, FALSE)
        pem(type, bytes) == PemEncode(type, bytes)
    IN  {[file |-> [kind |-> "raw", type |-> "", bytes |-> <<104, 105>>,
                    cap |-> 2, ssh |-> NoSsh],
          origin |-> o("notPEM")]}
        \cup UNION {{[file |-> [pem(crypt4GHPrivateKeyHeader, Take(magic, n))
                                     EXCEPT !.cap = cap],
                        origin |-> o("shortBody")] : cap \in {PemCap(n), 9}} :
                      n \in {0, 5, 6}}
        \cup {[file |-> pem("CERTIFICATE", <<1, 2, 3, 4, 5, 6, 7, 8>>),
               origin |-> o("otherPEM")]}
        \cup {[file |-> [pem(openSSHPrivateKeyHeader, <<111, 112, 101, 110, 115, 115, 104, 45>>)
                            EXCEPT !.ssh = [keyType |-> t, encrypted |-> e,
                                            pass |-> <<112>>, edKey |-> EdKey,
                                            viaPkcs8 |-> FALSE]],
               origin |-> o(IF t = "rsa" THEN "sshOther" ELSE "sshEd25519")] :
                 t \in {"ed25519ptr", "ed25519val", "rsa"}, e \in BOOLEAN}
        \cup {[file |-> [pem(openSSLPrivateKeyHeader, Pkcs8Der(a.oid, Take(EdKey, KeySize)))
                            EXCEPT !.ssh = [keyType |-> a.keyType, encrypted |-> FALSE,
                                            pass |-> <<>>, edKey |-> EdKey,
                                            viaPkcs8 |-> v]],
               origin |-> o(a.class)] :
                 a \in {[oid |-> ed25519Algorithm, keyType |-> "ed25519val",
                         class |-> "pkcs8Ed25519"],
                        [oid |-> x25519Algorithm, keyType |-> "ecdh",
                         class |-> "pkcs8X25519"],
                        [oid |-> rsaAlgorithm, keyType |-> "rsa",
                         class |-> "pkcs8Other"]},
                 v \in BOOLEAN}

WriteKey ==
    /\ kstate = "start"
    /\ \E p \in PrivateKeys, w \in PassPhrases, salt \in Salts,
          nonce \in KeyNonces, outcome \in {"ok", "randErr"} :
         IF outcome = "ok"
         THEN /\ kfile' = [file |-> WriteCrypt4GHX25519PrivateKey(p, w, salt, nonce),
                           origin |-> Origin("written", "c4gh", p, w, scrypt,
                                             supportedCipherName, TRUE)]
              /\ kstate' = "written"
         ELSE /\ kfile' = kfile
              /\ kstate' = "failed"
    /\ UNCHANGED <<kpass, kres, wvars, svars>>

CraftKey ==
    /\ kstate = "start"
    /\ kfile' \in CraftedC4gh \cup CraftedOther
    /\ kstate' = "crafted"
    /\ UNCHANGED <<kpass, kres, wvars, svars>>

ReadKey ==
    /\ kstate \in {"written", "crafted"}
    /\ \E passPhrase \in PassPhrases :
         /\ kpass' = passPhrase
         /\ kres' = ReadPrivateKey(kfile.file, passPhrase)
    /\ kstate' = "read"
    /\ UNCHANGED <<kfile, wvars, svars>>

NextKeys == WriteKey \/ CraftKey \/ ReadKey

SpecKeys == Init /\ [][NextKeys]_vars

----------------------------------------------------------------------------
(* Specification SpecShared: two key pairs and a third public key are      *)
(* drawn; each side derives its shared keys.                               *)

SharedPrivateKeys == {CopyInto(KeySize, <<k>>) : k \in {1, 2, 3, 40, 77}}
\* Peer public keys: derived ones, and the low-order point 0.
PeerPublicKeys ==
    {DerivePublicKey(k) : k \in SharedPrivateKeys} \cup {Rep(0, KeySize)}

NoKey == [err |-> "unset", key |-> <<>>]

DrawKeys ==
    /\ sstate = "start"
    /\ \E r \in SharedPrivateKeys, w \in SharedPrivateKeys, B \in PeerPublicKeys :
         sin' = [rPriv |-> r, wPriv |-> w, B |-> B]
    /\ sres' = [reader |-> NoKey, writer |-> NoKey, readerAB |-> NoKey,
                writerAB |-> NoKey]
    /\ sstate' = "drawn"
    /\ UNCHANGED <<wvars, kvars>>

\* The reader derives against the writer's public key, and against B.
ReaderDerive ==
    /\ sstate = "drawn"
    /\ sres.reader = NoKey
    /\ sres' = [sres EXCEPT
                  !.reader = GenerateReaderSharedKey(sin.rPriv,
                                                     DerivePublicKey(sin.wPriv)),
                  !.readerAB = GenerateReaderSharedKey(sin.rPriv, sin.B)]
    /\ UNCHANGED <<sstate, sin, wvars, kvars>>

\* The writer derives against the reader's public key; the reader's key is
\* also used in the writer role against B.
WriterDerive ==
    /\ sstate = "drawn"
    /\ sres.writer = NoKey
    /\ sres' = [sres EXCEPT
                  !.writer = GenerateWriterSharedKey(sin.wPriv,
                                                     DerivePublicKey(sin.rPriv)),
                  !.writerAB = GenerateWriterSharedKey(sin.rPriv, sin.B)]
    /\ UNCHANGED <<sstate, sin, wvars, kvars>>

NextShared == DrawKeys \/ ReaderDerive \/ WriterDerive

SpecShared == Init /\ [][NextShared]_vars

----------------------------------------------------------------------------
(* Properties of the key codec (SpecKeys) and of the shared keys           *)
(* (SpecShared).                                                           *)

WasRead == kstate = "read"

\* C4: the file WriteCrypt4GHX25519PrivateKey(p, w) produced decodes to p
\* under the passphrase w, fails with Decrypt under any other passphrase
\* (the empty one included), and fails with PasswordRequired under nil.
C4_RoundTrip ==
    (WasRead /\ kfile.origin.how = "written") =>
        IF kpass.isNil THEN kres = KeyErr("PasswordRequired")
        ELSE IF kpass.bytes = kfile.origin.pass.bytes
             THEN kres = KeyOk(kfile.origin.key, "c4gh")
             ELSE kres = KeyErr("Decrypt")

\* A key written under a non-empty password and read back with it.
C4_Witness ==
    /\ WasRead
    /\ kfile.origin.how = "written"
    /\ kfile.origin.pass.bytes # <<>>
    /\ kpass = kfile.origin.pass
    /\ kres.err = "nil"
    /\ kres.key = kfile.origin.key

\* The inputs none of the three formats applies to.
NoFormatApplies ==
    kfile.origin.class \in {"notPEM", "shortBody", "otherPEM", "sshOther",
                            "pkcs8Other"}

\* C5: the formats are probed in the order SSH, PKCS#8, Crypt4GH, the first
\* success is returned, and an input none applies to yields the
\* UnsupportedPrivateKeyFormat error as a value.
C5_UnsupportedIsAnError ==
    WasRead =>
        /\ NoFormatApplies => kres = KeyErr("UnsupportedPrivateKeyFormat")
        /\ (~kres.panic /\ kres.err = "nil") =>
             kres.via = CASE kfile.origin.class = "sshEd25519" -> "ssh"
                          [] kfile.origin.class \in {"pkcs8Ed25519", "pkcs8X25519"}
                               -> IF kfile.file.ssh.viaPkcs8 /\ kpass.isNil
                                  THEN "ssh" ELSE "pkcs8"
                          [] OTHER -> "c4gh"

IsCraftedC4gh == kfile.origin.how = "crafted" /\ kfile.origin.class = "c4gh"

\* The KDF/cipher rule as section 4.B.1 words it, for a key file of origin o.
KdfCipherRule(o, passphraseNeeded) ==
    /\ (o.kdf = none /\ o.cipher = none) => kres = KeyOk(o.key, "c4gh")
    /\ (o.kdf = none /\ o.cipher # none) => kres = KeyErr("MismatchedKdfCipher")
    /\ (o.kdf \in KDFS /\ o.kdf # none /\ o.cipher # supportedCipherName
          /\ (passphraseNeeded => ~kpass.isNil))
         => kres = KeyErr("UnsupportedCipher")
    /\ o.kdf \notin KDFS => kres = KeyErr("UnsupportedKDF")

SharedDone == sstate = "drawn" /\ sres.reader # NoKey /\ sres.writer # NoKey

\* C7: the reader's key against the writer's public key is the writer's
\* key against the reader's public key, the hash of the Diffie-Hellman
\* value, the reader's public key and the writer's public key in that
\* order; and for one caller a against B the two roles give different keys
\* whenever DerivePublicKey(a) is not B.
C7_SharedKeysAgree ==
    SharedDone =>
        LET rPub == DerivePublicKey(sin.rPriv)
            wPub == DerivePublicKey(sin.wPriv)
        IN  /\ sres.reader.err = "nil"
            /\ sres.writer.err = "nil"
            /\ sres.reader.key = sres.writer.key
            /\ sres.reader.key =
                 Blake2b((X25519(sin.rPriv, wPub).key \o rPub) \o wPub)
            /\ (sres.readerAB.err = "nil" /\ rPub # sin.B) =>
                 /\ sres.writerAB.err = "nil"
                 /\ sres.readerAB.key # sres.writerAB.key

\* Two different key pairs that agree, and a third key B against which the
\* roles differ.
C7_Witness ==
    /\ SharedDone
    /\ sin.rPriv # sin.wPriv
    /\ sres.reader.err = "nil"
    /\ sres.reader.key = sres.writer.key
    /\ sres.readerAB.err = "nil"
    /\ DerivePublicKey(sin.rPriv) # sin.B
    /\ sres.readerAB.key # sres.writerAB.key

====
